---- MODULE Spec2Model ----
(***************************************************************************)
(* A model of src/src/visualize.py: the class Visualize, a wrapper that    *)
(* reads LISFLOOD-FP grid files and a cached coordinate file, shapes them  *)
(* into labeled arrays and overlays them on a basemap.                     *)
(*                                                                         *)
(* Every method is one action.  A method is modelled by an operator that   *)
(* returns a record with the value returned (val), the exception raised    *)
(* (err), the methods of self that were entered (calls, in order) and the  *)
(* files that were opened (opened, in order).                              *)
(***************************************************************************)
EXTENDS Integers, Sequences, FiniteSets, TLC

VARIABLES mapTiles, files, call, ret, calls, opened, df, shown

vars == <<mapTiles, files, call, ret, calls, opened, df, shown>>

(***************************************************************************)
(* Bounds of the model.                                                    *)
(***************************************************************************)
\* grid files exist for the indices 0..MaxIdx
MaxIdx == 2
\* longest list handed to constDataSet
MaxLen == 2

(***************************************************************************)
(* Values.                                                                 *)
(***************************************************************************)
\* np.nan, a cell value that compares unequal to everything, itself included
NaN == 99999
\* the default of the parameter undef
DefaultUndef == -9999

None == [type |-> "None"]
NoErr == [type |-> "NoErr"]
NoPath == <<"", 0>>

\* an exception: its class, the statement that raised it, the file it is about
Error(t, site, path) == [type |-> t, at |-> site, path |-> path]

\* elementwise == of numpy: NaN equals nothing
NpEq(a, b) == a # NaN /\ b # NaN /\ a = b

\* filenamefmt % i
Format(filenamefmt, i) == <<filenamefmt, i>>

GridFmt == "grid"
CachePath == <<"cache", 0>>
OutPath == <<"out", 0>>
GridPaths == {Format(GridFmt, i) : i \in 0..MaxIdx}
Paths == GridPaths \cup {CachePath, OutPath}

\* contents of a path of the file system
Missing == [kind |-> "missing"]
Html == [kind |-> "html"]
GridFile(table) == [kind |-> "grid", table |-> table]
NcFile(lats, lons) == [kind |-> "nc", lats |-> lats, lons |-> lons]

\* a pandas.DataFrame: dtype "float64" or "int64" when every column has that
\* dtype (one block), "mixed" when int64 and float64 columns are both present
DataFrame(dtype, rows) == [type |-> "DataFrame", dtype |-> dtype, rows |-> rows]

NRows(rows) == Len(rows)
NCols(rows) == IF Len(rows) = 0 THEN 0 ELSE Len(rows[1])

(***************************************************************************)
(* readData: pd.read_csv(filename, ...) opens the file and parses it.      *)
(***************************************************************************)
ReadData(fs, filename) ==
    LET c == fs[filename]
        base == [calls |-> <<"readData">>, opened |-> <<filename>>]
    IN  IF c.kind = "missing"
        THEN [val |-> None, err |-> Error("FileNotFoundError", "open", filename)] @@ base
        ELSE IF c.kind # "grid"
        THEN [val |-> None, err |-> Error("ParserError", "read_csv", filename)] @@ base
        ELSE [val |-> c.table, err |-> NoErr] @@ base

(***************************************************************************)
(* readCache: only kind "nc" opens the file; any other kind raises IOError *)
(***************************************************************************)
ReadCacheOpenFirst(fs, filename, kind) ==
    LET c == fs[filename]
        base == [calls |-> <<"readCache">>, opened |-> <<filename>>]
    IN  IF kind # "nc"
        THEN [val |-> None, err |-> Error("IOError", "kind", NoPath)] @@ base
        ELSE IF c.kind = "missing"
        THEN [val |-> None, err |-> Error("FileNotFoundError", "open", filename)] @@ base
        ELSE IF c.kind # "nc"
        THEN [val |-> None, err |-> Error("OSError", "open_dataset", filename)] @@ base
        ELSE [val |-> [type |-> "Coords", lats |-> c.lats, lons |-> c.lons],
              err |-> NoErr] @@ base

ReadCache(fs, filename, kind) ==
    LET c == fs[filename]
        base == [calls |-> <<"readCache">>]
    IN  IF kind = "nc"
        THEN IF c.kind = "missing"
             THEN [val |-> None, err |-> Error("FileNotFoundError", "open", filename),
                   opened |-> <<filename>>] @@ base
             ELSE IF c.kind # "nc"
             THEN [val |-> None, err |-> Error("OSError", "open_dataset", filename),
                   opened |-> <<filename>>] @@ base
             ELSE [val |-> [type |-> "Coords", lats |-> c.lats, lons |-> c.lons],
                   err |-> NoErr, opened |-> <<filename>>] @@ base
        ELSE [val |-> None, err |-> Error("IOError", "kind", NoPath),
              opened |-> <<>>] @@ base

(***************************************************************************)
(* constDataArray.                                                         *)
(***************************************************************************)
\* data[data == undef] = np.nan on the cells of a float64 array
MaskedFirstRow(rows, undef) ==
    [i \in 1..Len(rows) |->
        [j \in 1..Len(rows[i]) |->
            IF i = 1 /\ NpEq(rows[i][j], undef) THEN NaN ELSE rows[i][j]]]

Masked(rows, undef) ==
    [i \in 1..Len(rows) |->
        [j \in 1..Len(rows[i]) |->
            IF NpEq(rows[i][j], undef) THEN NaN ELSE rows[i][j]]]

\* df.values is a view of the frame's block when the frame has one dtype,
\* and a new float64 array when int64 and float64 columns are mixed
IsView(frame) == frame.dtype # "mixed"
ValuesDtype(frame) == IF frame.dtype = "mixed" THEN "float64" ELSE frame.dtype

\* val: the DataArray, err: the exception, frame: the caller's df afterwards
ConstDataArray(frame, lats, lons, name, undef) ==
    LET base == [calls |-> <<"constDataArray">>, opened |-> <<>>]
        data == Masked(frame.rows, undef)
        after == IF IsView(frame) THEN [frame EXCEPT !.rows = data] ELSE frame
    IN  IF ValuesDtype(frame) = "int64"
        THEN \* a Python float nan cannot be cast to the int64 dtype
             [val |-> None, err |-> Error("ValueError", "setitem", NoPath),
              frame |-> frame] @@ base
        ELSE IF NRows(data) # Len(lats) \/ NCols(data) # Len(lons)
        THEN [val |-> None, err |-> Error("ValueError", "DataArray", NoPath),
              frame |-> after] @@ base
        ELSE [val |-> [type |-> "DataArray", name |-> name, lat |-> lats,
                       lon |-> lons, data |-> data],
              err |-> NoErr, frame |-> after] @@ base

(***************************************************************************)
(* constDataSet.                                                           *)
(***************************************************************************)
\* xr.concat(dArrayList, "time") of a non-empty list: a new leading axis
ConcatReversed(dArrayList) ==
    [type |-> "DataArray", name |-> dArrayList[1].name,
     lat |-> dArrayList[1].lat, lon |-> dArrayList[1].lon,
     time |-> <<>>,
     frames |-> [i \in 1..Len(dArrayList) |->
                    dArrayList[Len(dArrayList) + 1 - i].data]]

Concat(dArrayList) ==
    [type |-> "DataArray", name |-> dArrayList[1].name,
     lat |-> dArrayList[1].lat, lon |-> dArrayList[1].lon,
     time |-> <<>>,
     frames |-> [i \in 1..Len(dArrayList) |-> dArrayList[i].data]]

\* dataset["time"] = dateList: TRUE when the coordinate fits the time axis
TimeFitsAlways(dataset, dateList) == TRUE

TimeFits(dataset, dateList) == Len(dateList) = Len(dataset.frames)

\* the dataset with dateList attached as the coordinate of the time axis
SetTime(dataset, dateList) == [dataset EXCEPT !.time = dateList]

ConstDataSet(dArrayList, dateList) ==
    LET base == [calls |-> <<"constDataSet">>, opened |-> <<>>]
    IN  IF Len(dArrayList) = 0
        THEN [val |-> None, err |-> Error("ValueError", "concat", NoPath)] @@ base
        ELSE LET dataset == Concat(dArrayList)
             IN  IF ~TimeFits(dataset, dateList)
                 THEN [val |-> None,
                       err |-> Error("ValueError", "time", NoPath)] @@ base
                 ELSE [val |-> SetTime(dataset, dateList), err |-> NoErr] @@ base

(***************************************************************************)
(* plotMap.                                                                *)
(***************************************************************************)
\* self.mapTiles after plotMap: img * self.mapTiles builds a new overlay
TilesAfterPlotReplaced(tiles, img) == [type |-> "Overlay", image |-> img, tiles |-> tiles]

TilesAfterPlot(tiles, img) == tiles

PlotMap(tiles, dArray, name, dataShader) ==
    LET img == [type |-> "Image", dataset |-> dArray, kdims |-> <<"lon", "lat">>,
                vdim |-> name, regrid |-> dataShader, width |-> 500,
                height |-> 250, alpha |-> "0.5", colorbar |-> TRUE,
                cmap |-> "gist_earth_r", tools |-> <<"hover">>]
    IN  [val |-> [type |-> "Overlay", image |-> img, tiles |-> tiles],
         err |-> NoErr, tiles |-> TilesAfterPlot(tiles, img),
         calls |-> <<"plotMap">>, opened |-> <<>>]

(***************************************************************************)
(* show: readData, readCache, constDataArray, plotMap; an exception of a   *)
(* step leaves the method at once.                                         *)
(***************************************************************************)
\* the outcome of a method that ends with the exception of the step r
Raise(r, tiles, callsSoFar, openedSoFar) ==
    [val |-> None, err |-> r.err, tiles |-> tiles,
     calls |-> callsSoFar \o r.calls, opened |-> openedSoFar \o r.opened]

ShowCacheFirst(tiles, fs, filename, name, cacheFile, dataShader, undef) ==
    LET r2 == ReadCache(fs, cacheFile, "nc")
    IN  IF r2.err # NoErr THEN Raise(r2, tiles, <<>>, <<>>) ELSE
    LET r1 == ReadData(fs, filename)
    IN  IF r1.err # NoErr THEN Raise(r1, tiles, r2.calls, r2.opened) ELSE
    LET r3 == ConstDataArray(r1.val, r2.val.lats, r2.val.lons, name, undef)
        c3 == r2.calls \o r1.calls
        o3 == r2.opened \o r1.opened
    IN  IF r3.err # NoErr THEN Raise(r3, tiles, c3, o3) ELSE
    LET r4 == PlotMap(tiles, r3.val, name, dataShader)
    IN  [val |-> r4.val, err |-> r4.err, tiles |-> r4.tiles,
         calls |-> c3 \o r3.calls \o r4.calls,
         opened |-> o3 \o r3.opened \o r4.opened]

Show(tiles, fs, filename, name, cacheFile, dataShader, undef) ==
    LET r1 == ReadData(fs, filename)
    IN  IF r1.err # NoErr THEN Raise(r1, tiles, <<>>, <<>>) ELSE
    LET r2 == ReadCache(fs, cacheFile, "nc")
    IN  IF r2.err # NoErr THEN Raise(r2, tiles, r1.calls, r1.opened) ELSE
    LET r3 == ConstDataArray(r1.val, r2.val.lats, r2.val.lons, name, undef)
        c3 == r1.calls \o r2.calls
        o3 == r1.opened \o r2.opened
    IN  IF r3.err # NoErr THEN Raise(r3, tiles, c3, o3) ELSE
    LET r4 == PlotMap(tiles, r3.val, name, dataShader)
    IN  [val |-> r4.val, err |-> r4.err, tiles |-> r4.tiles,
         calls |-> c3 \o r3.calls \o r4.calls,
         opened |-> o3 \o r3.opened \o r4.opened]

(***************************************************************************)
(* animate.                                                                *)
(***************************************************************************)
\* pd.date_range(start=startDate, periods=periods, freq=freq), periods >= 0
DateRangeFromNext(startDate, periods, freq) ==
    [k \in 1..periods |-> startDate + k * freq]

DateRange(startDate, periods, freq) ==
    [k \in 1..periods |-> startDate + (k - 1) * freq]

\* the loop "for i in range(startIdx, endIdx)" from index i on, dArrayList
\* holding the frames appended so far
RECURSIVE AnimateLoopSkip(_, _, _, _, _, _, _, _)
AnimateLoopSkip(fs, filenamefmt, coords, name, undef, i, endIdx, dArrayList) ==
    IF i >= endIdx
    THEN [val |-> dArrayList, err |-> NoErr, calls |-> <<>>, opened |-> <<>>]
    ELSE LET r1 == ReadData(fs, Format(filenamefmt, i))
             rest1 == AnimateLoopSkip(fs, filenamefmt, coords, name, undef,
                                      i + 1, endIdx, dArrayList)
         IN  IF r1.err # NoErr
             THEN [rest1 EXCEPT !.calls = r1.calls \o @,
                                !.opened = r1.opened \o @]
             ELSE
         LET r3 == ConstDataArray(r1.val, coords.lats, coords.lons, name, undef)
         IN  IF r3.err # NoErr
             THEN [val |-> None, err |-> r3.err,
                   calls |-> r1.calls \o r3.calls, opened |-> r1.opened]
             ELSE
         LET rest == AnimateLoopSkip(fs, filenamefmt, coords, name, undef,
                                     i + 1, endIdx, Append(dArrayList, r3.val))
         IN  [rest EXCEPT !.calls = r1.calls \o r3.calls \o @,
                          !.opened = r1.opened \o @]

RECURSIVE AnimateLoop(_, _, _, _, _, _, _, _)
AnimateLoop(fs, filenamefmt, coords, name, undef, i, endIdx, dArrayList) ==
    IF i >= endIdx
    THEN [val |-> dArrayList, err |-> NoErr, calls |-> <<>>, opened |-> <<>>]
    ELSE LET r1 == ReadData(fs, Format(filenamefmt, i))
         IN  IF r1.err # NoErr
             THEN [val |-> None, err |-> r1.err,
                   calls |-> r1.calls, opened |-> r1.opened]
             ELSE
         LET r3 == ConstDataArray(r1.val, coords.lats, coords.lons, name, undef)
         IN  IF r3.err # NoErr
             THEN [val |-> None, err |-> r3.err,
                   calls |-> r1.calls \o r3.calls, opened |-> r1.opened]
             ELSE
         LET rest == AnimateLoop(fs, filenamefmt, coords, name, undef,
                                 i + 1, endIdx, Append(dArrayList, r3.val))
         IN  [rest EXCEPT !.calls = r1.calls \o r3.calls \o @,
                          !.opened = r1.opened \o @]

Animate(tiles, fs, filenamefmt, name, cacheFile, startIdx, endIdx, startDate, freq, dataShader, undef) ==
    LET periods == endIdx - startIdx
    IN  IF periods < 0
        THEN \* date_range refuses a negative number of periods
             [val |-> None, err |-> Error("ValueError", "date_range", NoPath),
              tiles |-> tiles, calls |-> <<>>, opened |-> <<>>]
        ELSE
    LET dateList == DateRange(startDate, periods, freq)
        r2 == ReadCache(fs, cacheFile, "nc")
    IN  IF r2.err # NoErr THEN Raise(r2, tiles, <<>>, <<>>) ELSE
    LET rl == AnimateLoop(fs, filenamefmt, r2.val, name, undef, startIdx,
                          endIdx, <<>>)
    IN  IF rl.err # NoErr THEN Raise(rl, tiles, r2.calls, r2.opened) ELSE
    LET r5 == ConstDataSet(rl.val, dateList)
        c5 == r2.calls \o rl.calls
        o5 == r2.opened \o rl.opened
    IN  IF r5.err # NoErr THEN Raise(r5, tiles, c5, o5) ELSE
    LET r4 == PlotMap(tiles, r5.val, name, dataShader)
    IN  [val |-> r4.val, err |-> r4.err, tiles |-> r4.tiles,
         calls |-> c5 \o r5.calls \o r4.calls,
         opened |-> o5 \o r5.opened \o r4.opened]

(***************************************************************************)
(* The inputs the calls are made with.                                     *)
(***************************************************************************)
Names == {"wd", "elev"}
Undefs == {DefaultUndef, 0}
StartDates == {10}
Freqs == {7}
Kinds == {"nc", "csv"}

Lats == <<50, 51>>
Lons == <<20, 21>>

\* the grid a simulation wrote for step i: one cell of each file is undefined
GridRows(i) == << <<DefaultUndef, i + 1>>, <<0, i + 11>> >>
FloatTable(i) == DataFrame("float64", GridRows(i))
IntTable(i) == DataFrame("int64", GridRows(i))

\* a grid of one row, which does not fit the two latitudes of the cache
ShortTable == DataFrame("float64", << <<DefaultUndef, 5>> >>)

\* file systems the program may start with: the grid file of a step is
\* absent or holds that step's grid; the first one may also hold integers
\* only or a grid of another shape
FirstGrids == {GridFile(IntTable(0)), GridFile(ShortTable)}

InitFiles ==
    {f \in [Paths -> {Missing, NcFile(Lats, Lons)} \cup FirstGrids
                       \cup {GridFile(FloatTable(i)) : i \in 0..MaxIdx}] :
        /\ f[OutPath] = Missing
        /\ f[CachePath].kind \in {"missing", "nc"}
        /\ \A i \in 0..MaxIdx :
              f[Format(GridFmt, i)] \in
                 {Missing, GridFile(FloatTable(i))}
                 \cup (IF i = 0 THEN FirstGrids ELSE {})}

\* the tables the array builder is tried on: 2 x 2 tables of each dtype
\* (np.nan only where the dtype has it) and 1 x 2 tables, which do not fit
\* the axes
CellValues == {DefaultUndef, 0}
RowsOf(nr, nc, values) == [1..nr -> [1..nc -> values]]
AllTables ==
    {DataFrame("float64", r) : r \in RowsOf(2, 2, CellValues \cup {NaN})}
    \cup {DataFrame("mixed", r) : r \in RowsOf(2, 2, CellValues)}
    \cup {DataFrame("int64", r) : r \in RowsOf(2, 2, CellValues)}
    \cup {DataFrame("float64", r) : r \in RowsOf(1, 2, CellValues)}

\* sequences over S of the lengths lo..hi
SeqsOf(S, lo, hi) == UNION {[1..n -> S] : n \in lo..hi}

\* the labeled array of a float table
ArrayOf(rows, name) ==
    ConstDataArray(DataFrame("float64", rows), Lats, Lons, name, DefaultUndef).val

SampleArrays == {ArrayOf(GridRows(i), "wd") : i \in 0..MaxIdx}

(***************************************************************************)
(* The state machine.  call is the latest call and its arguments, ret its  *)
(* outcome, calls and opened what it entered and opened, df the table the  *)
(* caller handed to it (None when it takes no table) as it is afterwards,  *)
(* shown the first show call made on the file system as it is now.         *)
(***************************************************************************)
\* __init__: self.mapTiles = self.__defineMap()
DefineMap ==
    [type |-> "WMTS",
     url |-> "https://server.arcgisonline.com/ArcGIS/rest/services/World_Imagery/MapServer/tile/{Z}/{Y}/{X}.jpg"]

NotShown == [type |-> "NotShown"]

Outcome(r) == [val |-> r.val, err |-> r.err]

InitWith(fileSystems) ==
    /\ mapTiles = DefineMap
    /\ files \in fileSystems
    /\ call = [op |-> "__init__"]
    /\ ret = [val |-> None, err |-> NoErr]
    /\ calls = <<>>
    /\ opened = <<>>
    /\ df = None
    /\ shown = NotShown

Init == InitWith(InitFiles)

\* a call other than the recorded show has been made since
Between(s) == IF s = NotShown THEN s ELSE [s EXCEPT !.between = TRUE]

\* what every call does to the state besides its own effect
Returns(c, r, tiles, frame) ==
    /\ call' = c
    /\ ret' = Outcome(r)
    /\ calls' = r.calls
    /\ opened' = r.opened
    /\ mapTiles' = tiles
    /\ df' = frame

DoReadData ==
    \E filename \in GridPaths \cup {CachePath} :
        /\ Returns([op |-> "readData", filename |-> filename],
                   ReadData(files, filename), mapTiles, None)
        /\ shown' = Between(shown)
        /\ UNCHANGED files

DoReadCache ==
    \E filename \in {CachePath, Format(GridFmt, 0)}, kind \in Kinds :
        /\ Returns([op |-> "readCache", filename |-> filename, kind |-> kind],
                   ReadCache(files, filename, kind), mapTiles, None)
        /\ shown' = Between(shown)
        /\ UNCHANGED files

ConstDataArrayOn(tables, axes, names, undefs) ==
    \E frame \in tables, lats \in axes, name \in names, undef \in undefs :
        LET r == ConstDataArray(frame, lats, Lons, name, undef)
        IN  /\ Returns([op |-> "constDataArray", df |-> frame, lats |-> lats,
                        lons |-> Lons, name |-> name, undef |-> undef],
                       r, mapTiles, r.frame)
            /\ shown' = Between(shown)
            /\ UNCHANGED files

ConstDataSetOn(arrays, dates, maxLen) ==
    \E dArrayList \in SeqsOf(arrays, 0, maxLen), dateList \in SeqsOf(dates, 0, maxLen) :
        /\ Returns([op |-> "constDataSet", dArrayList |-> dArrayList,
                    dateList |-> dateList],
                   ConstDataSet(dArrayList, dateList), mapTiles, None)
        /\ shown' = Between(shown)
        /\ UNCHANGED files

\* the tables the caller has read from the files
TablesRead == {files[p].table : p \in {q \in GridPaths : files[q].kind = "grid"}}

DoConstDataArray == ConstDataArrayOn(TablesRead, {Lats}, {"wd"}, Undefs)

DoConstDataSet == ConstDataSetOn({ArrayOf(GridRows(0), "wd")}, StartDates, 1)

DoPlotMap ==
    \E dArray \in {ArrayOf(GridRows(0), "wd")}, dataShader \in BOOLEAN :
        LET r == PlotMap(mapTiles, dArray, dArray.name, dataShader)
        IN  /\ Returns([op |-> "plotMap", dArray |-> dArray,
                        name |-> dArray.name, dataShader |-> dataShader],
                       r, r.tiles, None)
            /\ shown' = Between(shown)
            /\ UNCHANGED files

\* shown keeps the first show made on the files as they are and notes whether
\* another call has been made since (between)
DoShow ==
    \E filename \in GridPaths, name \in {"wd"}, undef \in Undefs :
        LET c == [op |-> "show", filename |-> filename, name |-> name,
                  cacheFile |-> CachePath, dataShader |-> TRUE, undef |-> undef]
            r == Show(mapTiles, files, filename, name, CachePath, TRUE, undef)
        IN  /\ Returns(c, r, r.tiles, None)
            /\ shown' = IF shown = NotShown \/ shown.files # files
                        THEN [args |-> c, ret |-> Outcome(r), files |-> files,
                              between |-> FALSE]
                        ELSE IF shown.args = c THEN shown ELSE Between(shown)
            /\ UNCHANGED files

DoAnimate ==
    \E startIdx \in 0..MaxIdx, endIdx \in 0..(MaxIdx + 1), freq \in Freqs,
       startDate \in StartDates, undef \in {DefaultUndef} :
        LET c == [op |-> "animate", filenamefmt |-> GridFmt, name |-> "wd",
                  cacheFile |-> CachePath, startIdx |-> startIdx,
                  endIdx |-> endIdx, startDate |-> startDate, freq |-> freq,
                  dataShader |-> TRUE, undef |-> undef]
            r == Animate(mapTiles, files, GridFmt, "wd", CachePath, startIdx,
                         endIdx, startDate, freq, TRUE, undef)
        IN  /\ Returns(c, r, r.tiles, None)
            /\ shown' = Between(shown)
            /\ UNCHANGED files

\* saveHtml(img, outName) with the overlay the latest call returned
DoSaveHtml ==
    /\ ret.val.type = "Overlay"
    /\ \E outName \in {OutPath, Format(GridFmt, 0)} :
          /\ files' = [files EXCEPT ![outName] = Html]
          /\ call' = [op |-> "saveHtml", outName |-> outName]
    /\ ret' = [val |-> None, err |-> NoErr]
    /\ calls' = <<"saveHtml">>
    /\ opened' = <<>>
    /\ df' = None
    /\ shown' = Between(shown)
    /\ UNCHANGED mapTiles

Next ==
    \/ DoReadData
    \/ DoReadCache
    \/ DoConstDataArray
    \/ DoConstDataSet
    \/ DoPlotMap
    \/ DoShow
    \/ DoAnimate
    \/ DoSaveHtml

Spec == Init /\ [][Next]_vars

(***************************************************************************)
(* The array builders alone, called with every table and every short list. *)
(***************************************************************************)
FixedFiles ==
    {f \in InitFiles : f[CachePath].kind = "nc"
                        /\ \A p \in GridPaths : f[p].kind = "missing"}

InitArray == InitWith(FixedFiles)

CallConstDataArray ==
    ConstDataArrayOn(AllTables, {Lats}, Names, Undefs \cup {NaN})

CallConstDataSet == ConstDataSetOn(SampleArrays, {10, 17}, MaxLen)

NextArray ==
    \/ CallConstDataArray
    \/ CallConstDataSet

SpecArray == InitArray /\ [][NextArray]_vars

(***************************************************************************)
(* Properties.                                                             *)
(***************************************************************************)
Cells(rows) == {<<i, j>> : i \in 1..NRows(rows), j \in 1..NCols(rows)}

\* C1: the labeled array constDataArray returns has no cell equal to undef:
\* a cell that equalled undef in the table is NaN in the array, every other
\* cell has the table's value at the same (lat, lon) position.
C1_UndefMasked ==
    (call.op = "constDataArray" /\ ret.err = NoErr) =>
        /\ ret.val.lat = call.lats
        /\ ret.val.lon = call.lons
        /\ NRows(ret.val.data) = NRows(call.df.rows)
        /\ NCols(ret.val.data) = NCols(call.df.rows)
        /\ \A c \in Cells(call.df.rows) :
              LET old == call.df.rows[c[1]][c[2]]
                  new == ret.val.data[c[1]][c[2]]
              IN  /\ ~NpEq(new, call.undef)
                  /\ NpEq(old, call.undef) => new = NaN
                  /\ ~NpEq(old, call.undef) => new = old

C1_Witness ==
    /\ call.op = "constDataArray"
    /\ ret.err = NoErr
    /\ NpEq(call.df.rows[2][1], call.undef)
    /\ ~NpEq(call.df.rows[1][1], call.undef)
    /\ ~NpEq(call.df.rows[2][2], call.undef)
    /\ call.df.rows[2][2] # NaN

\* C2 as stated: for dArrayList and dateList of equal length n, constDataSet
\* returns an array with n time steps, step i being dArrayList[i] tagged
\* with dateList[i].
SameOrder ==
    /\ ret.err = NoErr
    /\ ret.val.type = "DataArray"
    /\ Len(ret.val.frames) = Len(call.dArrayList)
    /\ Len(ret.val.time) = Len(call.dArrayList)
    /\ \A i \in 1..Len(call.dArrayList) :
          /\ ret.val.frames[i] = call.dArrayList[i].data
          /\ ret.val.time[i] = call.dateList[i]

C2_AnyEqualLength ==
    (call.op = "constDataSet" /\ Len(call.dArrayList) = Len(call.dateList))
        => SameOrder

\* C2 amended: for dArrayList and dateList of equal length n >= 1,
\* constDataSet returns an array with n time steps, step i being
\* dArrayList[i] tagged with dateList[i].
C2_NonEmptyEqualLength ==
    (/\ call.op = "constDataSet"
     /\ Len(call.dArrayList) = Len(call.dateList)
     /\ Len(call.dArrayList) >= 1)
        => SameOrder

C2_Witness ==
    /\ call.op = "constDataSet"
    /\ Len(call.dArrayList) = 2
    /\ Len(call.dateList) = 2
    /\ call.dArrayList[1] # call.dArrayList[2]
    /\ call.dateList[1] # call.dateList[2]
    /\ ret.err = NoErr

\* C3: with lists of different lengths constDataSet raises the ValueError of
\* a size conflict and returns no array.
C3_MismatchRaises ==
    (call.op = "constDataSet" /\ Len(call.dArrayList) # Len(call.dateList))
        => /\ ret.val = None
           /\ ret.err # NoErr
           /\ ret.err.type = "ValueError"

C3_Witness ==
    /\ call.op = "constDataSet"
    /\ Len(call.dArrayList) = 2
    /\ Len(call.dateList) = 1
    /\ ret.err.type = "ValueError"

\* C4: readCache with a kind other than "nc" raises the unsupported-format
\* IOError and opens no file, whatever the file name and the file are.
C4_UnsupportedKind ==
    (call.op = "readCache" /\ call.kind # "nc")
        => /\ ret.val = None
           /\ ret.err = Error("IOError", "kind", NoPath)
           /\ opened = <<>>

C4_Witness ==
    /\ call.op = "readCache"
    /\ call.kind = "csv"
    /\ files[call.filename].kind = "nc"
    /\ ret.err.type = "IOError"

\* the grid file of index i holds a table
Readable(i) ==
    /\ Format(call.filenamefmt, i) \in DOMAIN files
    /\ files[Format(call.filenamefmt, i)].kind = "grid"

\* the frame constDataArray builds from the grid file of index i
FrameOf(i) == Masked(files[Format(call.filenamefmt, i)].table.rows, call.undef)

\* constDataArray succeeds on the grid file of index i
FrameBuilt(i) ==
    /\ Readable(i)
    /\ files[call.cacheFile].kind = "nc"
    /\ ConstDataArray(files[Format(call.filenamefmt, i)].table,
                      files[call.cacheFile].lats, files[call.cacheFile].lons,
                      call.name, call.undef).err = NoErr

AnimateBuilt ==
    /\ ret.err = NoErr
    /\ ret.val.type = "Overlay"
    /\ LET dSet == ret.val.image.dataset
       IN  /\ Len(dSet.frames) = call.endIdx - call.startIdx
           /\ Len(dSet.time) = call.endIdx - call.startIdx
           /\ \A k \in 0..(call.endIdx - call.startIdx - 1) :
                 /\ dSet.frames[k + 1] = FrameOf(call.startIdx + k)
                 /\ dSet.time[k + 1] = call.startDate + k * call.freq

FirstUnreadable(i) ==
    /\ i \in call.startIdx..(call.endIdx - 1)
    /\ ~Readable(i)
    /\ \A j \in call.startIdx..(i - 1) : Readable(j)

InSeq(x, s) == \E k \in 1..Len(s) : s[k] = x

\* the parts of C6 that do not depend on which step fails: the grid files
\* are opened after the cache in increasing index order, nothing beyond the
\* first unreadable file is opened, constDataSet and plotMap are not
\* entered and nothing is returned
StopsAtFirstUnreadable(i) ==
    /\ \A k \in 2..Len(opened) :
          opened[k] = Format(call.filenamefmt, call.startIdx + k - 2)
    /\ \A j \in (i + 1)..(MaxIdx + 1) :
          ~InSeq(Format(call.filenamefmt, j), opened)
    /\ ~InSeq("constDataSet", calls)
    /\ ~InSeq("plotMap", calls)
    /\ ret.val = None
    /\ ret.err # NoErr

ErrorOfFile(i) ==
    /\ ret.err.path = Format(call.filenamefmt, i)
    /\ ret.err = ReadData(files, Format(call.filenamefmt, i)).err

\* C6 as stated: when the file of index i is the first unreadable one,
\* animate fails with that file's I/O error, reads no file of a greater
\* index, reaches neither constDataSet nor plotMap and returns nothing.
C6_FailsWithFileError ==
    call.op = "animate" =>
        \A i \in 0..MaxIdx :
            FirstUnreadable(i) => StopsAtFirstUnreadable(i) /\ ErrorOfFile(i)

\* C6 amended: when the file of index i is the first unreadable one, animate
\* fails, reads no file of a greater index, reaches neither constDataSet nor
\* plotMap and returns nothing; the failure is that file's I/O error when
\* readCache and the constDataArray calls of the indices before i succeeded.
C6_FailsFast ==
    call.op = "animate" =>
        \A i \in 0..MaxIdx :
            FirstUnreadable(i) =>
                /\ StopsAtFirstUnreadable(i)
                /\ (/\ files[call.cacheFile].kind = "nc"
                    /\ \A j \in call.startIdx..(i - 1) : FrameBuilt(j))
                      => ErrorOfFile(i)

C6_Witness ==
    /\ call.op = "animate"
    /\ FirstUnreadable(call.startIdx + 1)
    /\ call.endIdx > call.startIdx + 2
    /\ Readable(call.startIdx + 2)
    /\ ErrorOfFile(call.startIdx + 1)
    /\ Len(opened) = 3

ShowOrder == <<"readData", "readCache", "constDataArray", "plotMap">>

\* C7: show runs readData, readCache, constDataArray, plotMap in this order;
\* the first step that fails ends the call with its own error, no later step
\* runs and nothing is returned; when no step fails the overlay wraps the
\* array of that grid file, those coordinates, that name and that undef.
C7_ShowPipeline ==
    call.op = "show" =>
        LET r1 == ReadData(files, call.filename)
            r2 == ReadCache(files, call.cacheFile, "nc")
            gridOk == files[call.filename].kind = "grid"
            cacheOk == files[call.cacheFile].kind = "nc"
            r3 == ConstDataArray(r1.val, r2.val.lats, r2.val.lons, call.name,
                                 call.undef)
        IN  /\ Len(calls) \in 1..4
            /\ calls = SubSeq(ShowOrder, 1, Len(calls))
            /\ ret.err # NoErr => ret.val = None
            /\ ~gridOk =>
                  /\ calls = SubSeq(ShowOrder, 1, 1)
                  /\ opened = <<call.filename>>
                  /\ ret.err = r1.err /\ ret.err # NoErr
            /\ (gridOk /\ ~cacheOk) =>
                  /\ calls = SubSeq(ShowOrder, 1, 2)
                  /\ opened = <<call.filename, call.cacheFile>>
                  /\ ret.err = r2.err /\ ret.err # NoErr
            /\ (gridOk /\ cacheOk /\ r3.err # NoErr) =>
                  /\ calls = SubSeq(ShowOrder, 1, 3)
                  /\ ret.err = r3.err
            /\ (gridOk /\ cacheOk /\ r3.err = NoErr) =>
                  /\ calls = ShowOrder
                  /\ ret.err = NoErr
                  /\ ret.val.type = "Overlay"
                  /\ ret.val.tiles = mapTiles
                  /\ ret.val.image.vdim = call.name
                  /\ ret.val.image.dataset =
                        [type |-> "DataArray", name |-> call.name,
                         lat |-> files[call.cacheFile].lats,
                         lon |-> files[call.cacheFile].lons,
                         data |-> Masked(files[call.filename].table.rows,
                                         call.undef)]

C7_Witness ==
    /\ call.op = "show"
    /\ files[call.filename].kind = "grid"
    /\ files[call.cacheFile].kind = "missing"
    /\ calls = <<"readData", "readCache">>
    /\ ret.err.type = "FileNotFoundError"
    /\ ret.err.path = call.cacheFile

\* C8: mapTiles is the value __init__ assigned, after any sequence of calls.
C8_MapTilesFixed == mapTiles = DefineMap

C8_Witness ==
    /\ call.op = "saveHtml"
    /\ shown # NotShown
    /\ shown.between
    /\ shown.ret.val.type = "Overlay"
    /\ mapTiles = DefineMap

C10_TableUntouched == call.op = "constDataArray" => df = call.df

====
